---------------------------- MODULE Spec2Model ----------------------------
(***************************************************************************)
(* State-machine model of the mixing engine of the bar simulator:          *)
(* src/src/modules/CocktailSystem.ts (class CocktailSystem).               *)
(*                                                                         *)
(* Numbers.  The engine computes with JavaScript numbers.  Amounts,        *)
(* volumes and time deltas are modelled as exact rationals <<n, d>>        *)
(* (d > 0, lowest terms), so that the proportional split of                *)
(* pourFromShaker and the 0.01 pruning threshold are computed as the code  *)
(* computes them, without any rounding introduced by the model.            *)
(*                                                                         *)
(* Time.  Date.now() is read in two places only, as the difference         *)
(* Date.now() - drinkingStartTime.  The model keeps that difference        *)
(* (drinkingElapsed, in ms) instead of the two absolute readings, and the  *)
(* setTimeout of stopPouring as the remaining delay of the pending timer.  *)
(***************************************************************************)
EXTENDS Integers, Sequences, FiniteSets, TLC

(***************************************************************************)
(* Exact rational arithmetic                                               *)
(***************************************************************************)
Abs(x) == IF x < 0 THEN -x ELSE x

RECURSIVE Gcd(_, _)
Gcd(a, b) == IF b = 0 THEN a ELSE Gcd(b, a % b)

\* the rational n/d in lowest terms with a positive denominator (d # 0)
Rat(n, d) ==
    LET g == Gcd(Abs(n), Abs(d))
        s == IF d < 0 THEN -1 ELSE 1
    IN  <<(s * n) \div g, (s * d) \div g>>

Zero == <<0, 1>>
FromInt(n) == <<n, 1>>
\* sums and comparisons go through the least common denominator
Lcm(a, b) == (a \div Gcd(a, b)) * b
RAdd(x, y) ==
    LET d == Lcm(x[2], y[2])
    IN  Rat(x[1] * (d \div x[2]) + y[1] * (d \div y[2]), d)
RSub(x, y) ==
    LET d == Lcm(x[2], y[2])
    IN  Rat(x[1] * (d \div x[2]) - y[1] * (d \div y[2]), d)
RMul(x, y) ==
    LET g1 == Gcd(Abs(x[1]), y[2])
        g2 == Gcd(Abs(y[1]), x[2])
    IN  Rat((x[1] \div g1) * (y[1] \div g2), (x[2] \div g2) * (y[2] \div g1))
\* x / y for y # 0
RDiv(x, y) == RMul(x, Rat(y[2], y[1]))
RLt(x, y) ==
    LET d == Lcm(x[2], y[2])
    IN  x[1] * (d \div x[2]) < y[1] * (d \div y[2])
RLe(x, y) ==
    LET d == Lcm(x[2], y[2])
    IN  x[1] * (d \div x[2]) <= y[1] * (d \div y[2])
RMin(x, y) == IF RLe(x, y) THEN x ELSE y
\* Math.round of a non-negative rational: floor(x + 1/2)
RRound(x) == (2 * x[1] + x[2]) \div (2 * x[2])


(***************************************************************************)
(* Bounds and input sets of the model                                      *)
(***************************************************************************)
\* pour ticks (pour / pourFromShaker calls that move liquid) in one run
MaxTicks == 3
\* shake(dt) is offered while shakeTime is below this many seconds
MaxShakeTime == 3

\* vessel handles (TransformNode identities) offered to the commands
Handles == {"glass", "shaker"}
\* objects held as the bottle of a pour; a bottle is never registered
Bottles == {"bottle"}
NoNode == "null"

\* capacities passed to initContainer (BarEnvironment: glass 300, shaker 500)
Capacities == {300, 500}
\* per-call time deltas in seconds.  A run draws all its deltas from one of
\* two scales: long ticks of 0 s, 20/3 s, 10 s, 40/3 s (0, 200, 300, 400 ml
\* at the pour rate), or short ticks of 1/3000 s, 1/2000 s (0.01, 0.015 ml)
LongDeltas == {<<0, 1>>, <<20, 3>>, <<10, 1>>, <<40, 3>>}
ShortDeltas == {<<1, 3000>>, <<1, 2000>>}
\* the deltas of the runs that exercise drinking: 2 s (60 ml)
SipDeltas == {<<2, 1>>}
\* deltas offered to shake, in seconds
ShakeDeltas == {<<1, 1>>}
\* wall-clock steps between two calls, in ms
TimeSteps == {2500}

(***************************************************************************)
(* Ingredient catalog (initLiquorDatabase)                                 *)
(***************************************************************************)
Hex(r, g, b) == r * 65536 + g * 256 + b
Red(c) == c \div 65536
Green(c) == (c \div 256) % 256
Blue(c) == c % 256

\* id -> base color
liquorDatabase ==
    "vodka" :> Hex(240, 240, 240) @@
    "gin" :> Hex(232, 244, 248) @@
    "rum" :> Hex(212, 165, 116) @@
    "whiskey" :> Hex(184, 115, 51) @@
    "tequila" :> Hex(245, 222, 179) @@
    "brandy" :> Hex(139, 69, 19) @@
    "lemon_juice" :> Hex(255, 244, 79) @@
    "lime_juice" :> Hex(50, 205, 50) @@
    "simple_syrup" :> Hex(255, 228, 181) @@
    "grenadine" :> Hex(255, 0, 0) @@
    "angostura_bitters" :> Hex(139, 0, 0) @@
    "orange_juice" :> Hex(255, 165, 0) @@
    "pineapple_juice" :> Hex(255, 235, 59) @@
    "cranberry_juice" :> Hex(220, 20, 60) @@
    "tomato_juice" :> Hex(255, 99, 71) @@
    "grapefruit_juice" :> Hex(255, 105, 180) @@
    "soda_water" :> Hex(224, 255, 255) @@
    "tonic_water" :> Hex(240, 255, 255) @@
    "cola" :> Hex(62, 39, 35) @@
    "liqueur" :> Hex(255, 107, 157) @@
    "vermouth_dry" :> Hex(232, 232, 208) @@
    "vermouth_sweet" :> Hex(139, 69, 19) @@
    "campari" :> Hex(220, 20, 60) @@
    "triple_sec" :> Hex(255, 165, 0) @@
    "coconut_cream" :> Hex(255, 250, 240) @@
    "coffee_liqueur" :> Hex(62, 39, 35) @@
    "amaretto" :> Hex(210, 105, 30) @@
    "baileys" :> Hex(210, 180, 140) @@
    "blue_curacao" :> Hex(0, 0, 255) @@
    "peach_schnapps" :> Hex(255, 218, 185)

CatalogIds == DOMAIN liquorDatabase

\* liquor types offered to pour; "absinthe" is not in the catalog
LiquorTypes == {"gin", "vermouth_dry", "absinthe"}

\* this.pourRate, ml per second
pourRate == 30
\* the neutral color 0xffffff of an empty container
NeutralColor == Hex(255, 255, 255)
\* pourFromShaker keeps the entries with amount > 0.01
PruneThreshold == <<1, 100>>
\* pour's aiming gate: distance > 1.5 and dot product < 0.85 refuse the tick
MaxPourDistance == <<3, 2>>
MinAimDot == <<17, 20>>
\* shake triggers enhanceMixing when shakeTime > 2
ShakeMixThreshold == <<2, 1>>
\* updateDrinkingAnimation: the animation lasts 1.0 s
DrinkDurationMs == 1000
\* stopPouring: setTimeout(..., 5000)
HideDelayMs == 5000

(***************************************************************************)
(* Container contents: ingredient lists and the blended color              *)
(***************************************************************************)
\* an ingredient entry; name, displayName and color are fixed by the type
Entry(type, amount) == [type |-> type, amount |-> amount]

\* ingredients.find(ing => ing.type === type): the first index, 0 if none
RECURSIVE FindFrom(_, _, _)
FindFrom(ings, type, i) ==
    IF i > Len(ings) THEN 0
    ELSE IF ings[i].type = type THEN i
    ELSE FindFrom(ings, type, i + 1)

Find(ings, type) == FindFrom(ings, type, 1)

Types(ings) == [i \in 1..Len(ings) |-> ings[i].type]
Includes(ings, type) == Find(ings, type) # 0

\* AddIngredient without the find: a new entry is always pushed
AddIngredientAppending(ings, type, amt) == Append(ings, Entry(type, amt))

\* existing entry: amount += amt; otherwise push a new entry
AddIngredient(ings, type, amt) ==
    LET i == Find(ings, type)
    IN  IF i # 0
        THEN [ings EXCEPT ![i].amount = RAdd(@, amt)]
        ELSE Append(ings, Entry(type, amt))

RECURSIVE SumAmounts(_)
SumAmounts(ings) ==
    IF ings = <<>> THEN Zero
    ELSE RAdd(ings[1].amount, SumAmounts(Tail(ings)))

\* sum over the entries of channel(color) * amount
RECURSIVE WeightedRed(_)
WeightedRed(ings) ==
    IF ings = <<>> THEN Zero
    ELSE RAdd(RMul(FromInt(Red(liquorDatabase[ings[1].type])), ings[1].amount),
              WeightedRed(Tail(ings)))

RECURSIVE WeightedGreen(_)
WeightedGreen(ings) ==
    IF ings = <<>> THEN Zero
    ELSE RAdd(RMul(FromInt(Green(liquorDatabase[ings[1].type])), ings[1].amount),
              WeightedGreen(Tail(ings)))

RECURSIVE WeightedBlue(_)
WeightedBlue(ings) ==
    IF ings = <<>> THEN Zero
    ELSE RAdd(RMul(FromInt(Blue(liquorDatabase[ings[1].type])), ings[1].amount),
              WeightedBlue(Tail(ings)))

\* updateMixedColor: the color after the call, given the color before.
\* Color3.FromHexString yields channel/255; toHexString rounds channel*255.
updateMixedColor(ings, color) ==
    LET totalAmount == SumAmounts(ings)
    IN  IF Len(ings) = 0 THEN color
        ELSE IF RLt(Zero, totalAmount)
        THEN Hex(RRound(RDiv(WeightedRed(ings), totalAmount)),
                 RRound(RDiv(WeightedGreen(ings), totalAmount)),
                 RRound(RDiv(WeightedBlue(ings), totalAmount)))
        ELSE color

\* the record initContainer stores
EmptyContents(maxVolume) ==
    [ingredients |-> <<>>, color |-> NeutralColor, volume |-> Zero,
     maxVolume |-> FromInt(maxVolume)]

\* drink / updateDrinkingAnimation / emptyContainer: clear the contents
Cleared(contents) ==
    [contents EXCEPT !.ingredients = <<>>, !.volume = Zero, !.color = NeutralColor]

(***************************************************************************)
(* identifyCocktail                                                        *)
(***************************************************************************)
\* getAmount(type)
getAmount(ings, type) ==
    LET i == Find(ings, type) IN IF i # 0 THEN ings[i].amount ELSE Zero

\* types.some(t => list.includes(t))
SomeIn(ings, list) == \E i \in 1..Len(ings) : ings[i].type \in list

\* the band with the upper bound excluded: ratio >= 2 && ratio < 3
RatioInBandOpen(a, b) ==
    /\ b # Zero
    /\ RLe(FromInt(2), RDiv(a, b))
    /\ RLt(RDiv(a, b), FromInt(3))

\* ratio = a / b; ratio >= 2 && ratio <= 3.  With b = 0 the quotient is
\* Infinity or NaN and the comparison ratio <= 3 is false.
RatioInBand(a, b) ==
    /\ b # Zero
    /\ RLe(FromInt(2), RDiv(a, b))
    /\ RLe(RDiv(a, b), FromInt(3))

\* Math.abs(x - avg) / avg < 0.3; with avg = 0 the quotient is NaN: false
NearAverage(x, avg) ==
    /\ avg # Zero
    /\ LET d == RSub(x, avg)
           a == IF d[1] < 0 THEN <<-d[1], d[2]>> ELSE d
       IN  RLt(RDiv(a, avg), <<3, 10>>)

IsMartini(ings) ==
    /\ Includes(ings, "gin") /\ Includes(ings, "vermouth_dry")
    /\ ~SomeIn(ings, {"vodka", "rum", "whiskey", "tequila", "brandy", "campari"})
    /\ ~SomeIn(ings, {"orange_juice", "cranberry_juice", "pineapple_juice",
                      "tomato_juice", "grapefruit_juice"})
    /\ \A i \in 1..Len(ings) :
          ings[i].type \in {"gin", "vermouth_dry", "lemon_juice", "lime_juice", "simple_syrup"}
    /\ RatioInBand(getAmount(ings, "gin"), getAmount(ings, "vermouth_dry"))

IsVodkaMartini(ings) ==
    /\ Includes(ings, "vodka") /\ Includes(ings, "vermouth_dry")
    /\ ~SomeIn(ings, {"gin", "rum", "whiskey", "tequila", "brandy", "campari"})
    /\ RatioInBand(getAmount(ings, "vodka"), getAmount(ings, "vermouth_dry"))

IsNegroni(ings) ==
    /\ Includes(ings, "gin") /\ Includes(ings, "campari") /\ Includes(ings, "vermouth_sweet")
    /\ LET ginAmount == getAmount(ings, "gin")
           campariAmount == getAmount(ings, "campari")
           vermouthAmount == getAmount(ings, "vermouth_sweet")
           avgAmount == RDiv(RAdd(RAdd(ginAmount, campariAmount), vermouthAmount), FromInt(3))
       IN  /\ NearAverage(ginAmount, avgAmount)
           /\ NearAverage(campariAmount, avgAmount)
           /\ NearAverage(vermouthAmount, avgAmount)

\* the "simple recipe" tail of the cascade
SimpleMatch(ings) ==
    IF Includes(ings, "vodka") /\ Len(ings) = 1 THEN "Vodka neat"
    ELSE IF Includes(ings, "gin") /\ Len(ings) = 1 THEN "Gin neat"
    ELSE IF Includes(ings, "rum") /\ Includes(ings, "liqueur") THEN "Tropical Cocktail"
    ELSE IF Includes(ings, "vodka") /\ Includes(ings, "liqueur") THEN "Sex on the Beach"
    ELSE IF Len(ings) > 2 THEN "Custom mix"
    ELSE IF Len(ings) = 2 THEN "Two-ingredient mix"
    ELSE "Unknown drink"

identifyCocktail(ings) ==
    IF IsMartini(ings) THEN "Martini"
    ELSE IF IsVodkaMartini(ings) THEN "Vodka Martini"
    ELSE IF IsNegroni(ings) THEN "Negroni"
    ELSE IF Includes(ings, "tequila") /\ Includes(ings, "triple_sec")
            /\ Includes(ings, "lime_juice") THEN "Margarita"
    ELSE IF Includes(ings, "rum") /\ Includes(ings, "lime_juice")
            /\ Includes(ings, "simple_syrup") THEN "Daiquiri"
    ELSE IF Includes(ings, "rum") /\ Includes(ings, "pineapple_juice")
            /\ Includes(ings, "coconut_cream") THEN "Pina Colada"
    ELSE IF Includes(ings, "vodka") /\ Includes(ings, "triple_sec")
            /\ Includes(ings, "cranberry_juice") /\ Includes(ings, "lime_juice")
         THEN "Cosmopolitan"
    ELSE IF Includes(ings, "rum") /\ Includes(ings, "lime_juice")
            /\ Includes(ings, "simple_syrup") THEN "Mojito"
    ELSE IF Includes(ings, "whiskey") /\ Includes(ings, "vermouth_sweet") THEN "Manhattan"
    ELSE IF Includes(ings, "whiskey") /\ Includes(ings, "lemon_juice")
            /\ Includes(ings, "simple_syrup") THEN "Whiskey Sour"
    ELSE IF Includes(ings, "vodka") /\ Includes(ings, "tomato_juice") THEN "Bloody Mary"
    ELSE IF Includes(ings, "vodka") /\ Includes(ings, "orange_juice") /\ Len(ings) = 2
         THEN "Screwdriver"
    ELSE IF Includes(ings, "tequila") /\ Includes(ings, "orange_juice")
            /\ Includes(ings, "grenadine") THEN "Tequila Sunrise"
    ELSE IF Includes(ings, "rum") /\ Includes(ings, "triple_sec")
            /\ Includes(ings, "lime_juice") THEN "Mai Tai"
    ELSE IF Includes(ings, "vodka") /\ Includes(ings, "rum") /\ Includes(ings, "gin")
            /\ Includes(ings, "tequila") /\ Includes(ings, "triple_sec")
         THEN "Long Island Iced Tea"
    ELSE SimpleMatch(ings)

(***************************************************************************)
(* State of a CocktailSystem                                               *)
(***************************************************************************)
VARIABLES
    containerContents,      \* Map handle -> contents; DOMAIN = registered handles
    isPouringActive,
    currentPouringBottle,
    currentPouringAmount,
    pourProgressHideTimer,  \* "null", "pending" (callback due) or "fired" (stale id)
    hideTimerRemaining,     \* ms until the pending callback may run
    pourProgressUI,         \* panel.style.display and the pourRateText readout
    isDrinking,
    drinkingElapsed,        \* Date.now() - drinkingStartTime in ms, up to DrinkDurationMs
    currentDrinkingGlass,
    lastDrinkInfo,          \* <<>> for null, <<info>> otherwise
    isShakingActive,
    shakeTime,
    rotationX,              \* rotation.x of each vessel node: 0 at rest, else the
                            \* shakeTime t of the pose sin(15 t) * 0.03 it was given
    originalBottleRotation, \* <<>> for null, else <<rotation.x of the pouring node>>
    ret,                    \* the last call that returns a value, and the value
    deltas,                 \* the time deltas this run draws from
    ticks,                  \* pour ticks that moved liquid so far
    idContents,             \* identifyCocktail called on its own: the argument
    idName                  \* ... and the name returned

engine == <<containerContents, isPouringActive, currentPouringBottle,
            currentPouringAmount, pourProgressHideTimer, hideTimerRemaining,
            pourProgressUI, isDrinking, drinkingElapsed, currentDrinkingGlass,
            lastDrinkInfo, isShakingActive, shakeTime, rotationX,
            originalBottleRotation>>
pouring == <<isPouringActive, currentPouringBottle, currentPouringAmount,
             pourProgressHideTimer, hideTimerRemaining, pourProgressUI,
             originalBottleRotation>>
drinking == <<isDrinking, drinkingElapsed, currentDrinkingGlass, lastDrinkInfo>>
shaking == <<isShakingActive, shakeTime, rotationX>>
probe == <<idContents, idName>>
vars == <<engine, ret, ticks, deltas, probe>>

Null == <<>>
\* drink(container, startAnimation) and getLastDrinkInfo() return a value
Returned(op, container, value) == [op |-> op, container |-> container, value |-> value]

\* the constructor
EngineInit ==
    /\ containerContents = <<>>
    /\ isPouringActive = FALSE
    /\ currentPouringBottle = NoNode
    /\ currentPouringAmount = Zero
    /\ pourProgressHideTimer = "null"
    /\ hideTimerRemaining = 0
    /\ pourProgressUI = [display |-> "", pourRateText |-> Null]
    /\ isDrinking = FALSE
    /\ drinkingElapsed = 0
    /\ currentDrinkingGlass = NoNode
    /\ lastDrinkInfo = Null
    /\ isShakingActive = FALSE
    /\ shakeTime = Zero
    /\ rotationX = [h \in Handles |-> Zero]
    /\ originalBottleRotation = Null
    /\ ret = Returned("none", NoNode, Null)
    /\ ticks = 0

Init ==
    /\ EngineInit
    /\ deltas \in {LongDeltas, ShortDeltas}
    /\ idContents = <<>>
    /\ idName = ""

Registered(c) == c \in DOMAIN containerContents

\* Map.set(key, value)
MapSet(map, key, value) ==
    [k \in DOMAIN map \cup {key} |-> IF k = key THEN value ELSE map[k]]

(***************************************************************************)
(* Commands                                                                *)
(***************************************************************************)
initContainer(container, maxVolume) ==
    /\ containerContents' = MapSet(containerContents, container, EmptyContents(maxVolume))
    /\ UNCHANGED ret
    /\ UNCHANGED <<pouring, drinking, shaking, ticks, deltas, probe>>

\* the aiming context of a pour: no camera, or the distance bottle-target
\* and the dot product of the view direction with the direction to the target
NoCamera == [present |-> FALSE, distance |-> Zero, dot |-> Zero]
Camera(distance, dot) == [present |-> TRUE, distance |-> distance, dot |-> dot]
Cameras == {NoCamera, Camera(<<3, 2>>, <<17, 20>>), Camera(<<8, 5>>, <<1, 1>>),
            Camera(<<1, 1>>, <<21, 25>>)}

\* AimRefused with the distance test only
AimRefusedByDistance(camera) ==
    /\ camera.present
    /\ RLt(MaxPourDistance, camera.distance)

\* pour returns early: unregistered target, full target, or aim refused
AimRefused(camera) ==
    /\ camera.present
    /\ \/ RLt(MaxPourDistance, camera.distance)
       \/ RLt(camera.dot, MinAimDot)

\* PourRefused without the test for a full target
PourRefusedUnlessFull(targetContainer, liquorType, camera) ==
    \/ ~Registered(targetContainer)
    \/ /\ Registered(targetContainer)
       /\ \/ AimRefused(camera)
          \/ liquorType \notin CatalogIds

PourRefused(targetContainer, liquorType, camera) ==
    \/ ~Registered(targetContainer)
    \/ /\ Registered(targetContainer)
       /\ \/ RLe(containerContents[targetContainer].maxVolume,
                 containerContents[targetContainer].volume)
          \/ AimRefused(camera)
          \/ liquorType \notin CatalogIds

\* updatePourProgressUI: shows the panel and writes this.currentPouringAmount
\* as it is when the call is made
updatePourProgressUI ==
    [display |-> "block", pourRateText |-> <<RRound(currentPouringAmount)>>]

\* node.rotation.x; a bottle is never shaken and stays at rest
NodeRotationX(node) == IF node \in Handles THEN rotationX[node] ELSE Zero

\* currentPouringBottle.rotation.copyFrom(originalBottleRotation)
RotationRestored ==
    IF currentPouringBottle \in Handles /\ originalBottleRotation # Null
    THEN [rotationX EXCEPT ![currentPouringBottle] = originalBottleRotation[1]]
    ELSE rotationX

\* the session bookkeeping shared by pour and pourFromShaker
SessionTick(source, amount) ==
    /\ pourProgressUI' = updatePourProgressUI
    /\ isPouringActive' = TRUE
    /\ IF ~isPouringActive
       THEN /\ currentPouringBottle' = source
            /\ originalBottleRotation' = <<NodeRotationX(source)>>
            /\ currentPouringAmount' = RAdd(Zero, amount)
            /\ pourProgressHideTimer' = "null"
            /\ hideTimerRemaining' = 0
       ELSE /\ currentPouringAmount' = RAdd(currentPouringAmount, amount)
            /\ UNCHANGED <<currentPouringBottle, originalBottleRotation,
                           pourProgressHideTimer, hideTimerRemaining>>

\* PouredInto without the call of updateMixedColor
PouredIntoUncolored(contents, liquorType, amountPoured) ==
    [contents EXCEPT !.ingredients = AddIngredient(@, liquorType, amountPoured),
                     !.volume = RAdd(contents.volume, amountPoured)]

\* the contents of the target after a bottle tick
PouredInto(contents, liquorType, amountPoured) ==
    LET ings == AddIngredient(contents.ingredients, liquorType, amountPoured)
    IN  [contents EXCEPT !.ingredients = ings,
                         !.volume = RAdd(contents.volume, amountPoured),
                         !.color = updateMixedColor(ings, contents.color)]

pour(bottle, targetContainer, liquorType, deltaTime, camera) ==
    /\ UNCHANGED ret
    /\ UNCHANGED <<drinking, shaking, deltas, probe>>
    /\ IF PourRefused(targetContainer, liquorType, camera)
       THEN UNCHANGED <<containerContents, pouring, ticks>>
       ELSE LET amountPoured == RMul(FromInt(pourRate), deltaTime)
            IN  /\ ticks < MaxTicks
                /\ ticks' = ticks + 1
                /\ containerContents' =
                     [containerContents EXCEPT ![targetContainer] =
                        PouredInto(@, liquorType, amountPoured)]
                /\ SessionTick(bottle, amountPoured)

\* stopPouring that hides the panel and clears the amount at once
stopPouringClearing ==
    /\ isPouringActive' = FALSE
    /\ currentPouringBottle' = NoNode
    /\ pourProgressHideTimer' = "null"
    /\ hideTimerRemaining' = 0
    /\ pourProgressUI' = [pourProgressUI EXCEPT !.display = "none"]
    /\ currentPouringAmount' = Zero
    /\ rotationX' = RotationRestored
    /\ originalBottleRotation' = Null
    /\ UNCHANGED ret
    /\ UNCHANGED <<containerContents, drinking, isShakingActive, shakeTime,
                   ticks, deltas, probe>>

\* stopPouring; the pour-progress panel element exists in the page, so the
\* hide timer is always (re)armed
stopPouring ==
    /\ isPouringActive' = FALSE
    /\ currentPouringBottle' = NoNode
    /\ pourProgressHideTimer' = "pending"
    /\ hideTimerRemaining' = HideDelayMs
    /\ rotationX' = RotationRestored
    /\ originalBottleRotation' = Null
    /\ UNCHANGED ret
    /\ UNCHANGED <<containerContents, currentPouringAmount, pourProgressUI,
                   drinking, isShakingActive, shakeTime, ticks, deltas, probe>>

\* the callback stopPouring hands to setTimeout
hideTimerCallback ==
    /\ pourProgressHideTimer = "pending"
    /\ hideTimerRemaining = 0
    /\ pourProgressHideTimer' = "fired"
    /\ pourProgressUI' = [pourProgressUI EXCEPT !.display = "none"]
    /\ currentPouringAmount' = Zero
    /\ UNCHANGED ret
    /\ UNCHANGED <<containerContents, isPouringActive, currentPouringBottle,
                   originalBottleRotation, hideTimerRemaining, drinking, shaking,
                   ticks, deltas, probe>>

\* amountToPour without the cap by the target's remaining capacity
amountToPourUncapped(shakerContents, targetContents, deltaTime) ==
    RMin(RMul(FromInt(pourRate), deltaTime), shakerContents.volume)

\* amountToPour of pourFromShaker
amountToPour(shakerContents, targetContents, deltaTime) ==
    RMin(RMul(FromInt(pourRate), deltaTime),
         RMin(shakerContents.volume,
              RSub(targetContents.maxVolume, targetContents.volume)))

\* transferAmount that takes the whole tick amount from every entry
transferAmountWhole(ingredient, amount, volume) == amount

\* transferAmount of one shaker entry: ingredient.amount * (amountToPour / volume)
transferAmount(ingredient, amount, volume) ==
    RMul(ingredient.amount, RDiv(amount, volume))

\* the shaker's entries after the forEach: each reduced by its transferAmount
Drawn(ings, amount, volume) ==
    [i \in 1..Len(ings) |->
        [ings[i] EXCEPT !.amount = RSub(@, transferAmount(ings[i], amount, volume))]]

\* the target's entries after the forEach: each transferAmount added in turn
RECURSIVE Received(_, _, _, _)
Received(targetIngs, ings, amount, volume) ==
    IF ings = <<>> THEN targetIngs
    ELSE Received(AddIngredient(targetIngs, ings[1].type,
                                transferAmount(ings[1], amount, volume)),
                  Tail(ings), amount, volume)

\* ingredients.filter(ing => ing.amount > 0.01)
RECURSIVE Pruned(_)
Pruned(ings) ==
    IF ings = <<>> THEN <<>>
    ELSE IF RLt(PruneThreshold, ings[1].amount)
         THEN <<ings[1]>> \o Pruned(Tail(ings))
         ELSE Pruned(Tail(ings))

\* the shaker's contents after a tick into another container
ShakerAfter(contents, amount) ==
    LET ings == Pruned(Drawn(contents.ingredients, amount, contents.volume))
    IN  [contents EXCEPT !.ingredients = ings,
                         !.volume = RSub(contents.volume, amount),
                         !.color = updateMixedColor(ings, contents.color)]

\* the target's contents after a tick from another container
TargetAfter(contents, shakerContents, amount) ==
    LET ings == Received(contents.ingredients, shakerContents.ingredients,
                         amount, shakerContents.volume)
    IN  [contents EXCEPT !.ingredients = ings,
                         !.volume = RAdd(contents.volume, amount),
                         !.color = updateMixedColor(ings, contents.color)]

\* shaker and target are the same object: every entry is reduced and then
\* found again and increased by the same amount, the volume goes down and
\* up by amountToPour, and the filter runs on the one list
SelfAfter(contents, amount) ==
    LET ings == Pruned(contents.ingredients)
    IN  [contents EXCEPT !.ingredients = ings,
                         !.color = updateMixedColor(ings, contents.color)]

ShakerPourRefused(shaker, targetContainer) ==
    \/ ~Registered(shaker) \/ ~Registered(targetContainer)
    \/ /\ Registered(shaker) /\ Registered(targetContainer)
       /\ \/ RLe(containerContents[shaker].volume, Zero)
          \/ RLe(containerContents[targetContainer].maxVolume,
                 containerContents[targetContainer].volume)

pourFromShaker(shaker, targetContainer, deltaTime) ==
    /\ UNCHANGED ret
    /\ UNCHANGED <<drinking, shaking, deltas, probe>>
    /\ IF ShakerPourRefused(shaker, targetContainer)
       THEN UNCHANGED <<containerContents, pouring, ticks>>
       ELSE LET shakerContents == containerContents[shaker]
                targetContents == containerContents[targetContainer]
                amount == amountToPour(shakerContents, targetContents, deltaTime)
            IN  /\ ticks < MaxTicks
                /\ ticks' = ticks + 1
                /\ containerContents' =
                     IF shaker = targetContainer
                     THEN [containerContents EXCEPT ![shaker] = SelfAfter(@, amount)]
                     ELSE [containerContents EXCEPT
                             ![shaker] = ShakerAfter(@, amount),
                             ![targetContainer] = TargetAfter(@, shakerContents, amount)]
                /\ SessionTick(shaker, amount)

\* enhanceMixing: recompute the color of the container
enhanceMixing(contents) ==
    [contents EXCEPT !.color = updateMixedColor(contents.ingredients, contents.color)]

shakeUnchecked(shaker, deltaTime) ==
    /\ UNCHANGED ret
    /\ UNCHANGED <<pouring, drinking, ticks, deltas, probe>>
    /\ IF ~Registered(shaker)
       THEN UNCHANGED <<containerContents, shaking>>
       ELSE /\ RLt(shakeTime, FromInt(MaxShakeTime))
            /\ isShakingActive' = TRUE
            /\ shakeTime' = RAdd(shakeTime, deltaTime)
            /\ rotationX' = [rotationX EXCEPT ![shaker] = shakeTime']
            /\ containerContents' =
                 IF RLt(ShakeMixThreshold, shakeTime')
                 THEN [containerContents EXCEPT ![shaker] = enhanceMixing(@)]
                 ELSE containerContents

shake(shaker, deltaTime) ==
    /\ UNCHANGED ret
    /\ UNCHANGED <<pouring, drinking, ticks, deltas, probe>>
    /\ IF ~Registered(shaker) \/ containerContents[shaker].volume = Zero
       THEN UNCHANGED <<containerContents, shaking>>
       ELSE /\ RLt(shakeTime, FromInt(MaxShakeTime))
            /\ isShakingActive' = TRUE
            /\ shakeTime' = RAdd(shakeTime, deltaTime)
            /\ rotationX' = [rotationX EXCEPT ![shaker] = shakeTime']
            /\ containerContents' =
                 IF RLt(ShakeMixThreshold, shakeTime')
                 THEN [containerContents EXCEPT ![shaker] = enhanceMixing(@)]
                 ELSE containerContents

stopShaking(shaker) ==
    /\ isShakingActive' = FALSE
    /\ shakeTime' = Zero
    /\ rotationX' = [rotationX EXCEPT ![shaker] = Zero]
    /\ UNCHANGED ret
    /\ UNCHANGED <<containerContents, pouring, drinking, ticks, deltas, probe>>

\* drinkInfo built after the container has been cleared
DrinkInfoAfterClear(contents) ==
    [volume |-> Zero,
     ingredients |-> <<>>,
     color |-> NeutralColor,
     name |-> identifyCocktail(<<>>)]

\* the drinkInfo object built by drink and by updateDrinkingAnimation
DrinkInfo(contents) ==
    [volume |-> contents.volume,
     ingredients |-> contents.ingredients,
     color |-> contents.color,
     name |-> identifyCocktail(contents.ingredients)]

\* drink without the volume === 0 test
drinkUnchecked(container, startAnimation) ==
    /\ UNCHANGED <<pouring, shaking, ticks, deltas, probe>>
    /\ IF ~Registered(container)
       THEN /\ ret' = Returned("drink", container, Null)
            /\ UNCHANGED <<containerContents, drinking>>
       ELSE IF startAnimation /\ ~isDrinking
       THEN /\ isDrinking' = TRUE
            /\ drinkingElapsed' = 0
            /\ currentDrinkingGlass' = container
            /\ ret' = Returned("drink", container, Null)
            /\ UNCHANGED <<containerContents, lastDrinkInfo>>
       ELSE /\ ret' = Returned("drink", container, <<DrinkInfo(containerContents[container])>>)
            /\ containerContents' = [containerContents EXCEPT ![container] = Cleared(@)]
            /\ UNCHANGED drinking

\* drink that consumes the contents when the animation starts
drinkAtOnce(container, startAnimation) ==
    /\ UNCHANGED <<pouring, shaking, ticks, deltas, probe>>
    /\ IF ~Registered(container) \/ containerContents[container].volume = Zero
       THEN /\ ret' = Returned("drink", container, Null)
            /\ UNCHANGED <<containerContents, drinking>>
       ELSE IF startAnimation /\ ~isDrinking
       THEN /\ isDrinking' = TRUE
            /\ drinkingElapsed' = 0
            /\ currentDrinkingGlass' = container
            /\ ret' = Returned("drink", container, Null)
            /\ containerContents' = [containerContents EXCEPT ![container] = Cleared(@)]
            /\ UNCHANGED lastDrinkInfo
       ELSE /\ ret' = Returned("drink", container, <<DrinkInfo(containerContents[container])>>)
            /\ containerContents' = [containerContents EXCEPT ![container] = Cleared(@)]
            /\ UNCHANGED drinking

drink(container, startAnimation) ==
    /\ UNCHANGED <<pouring, shaking, ticks, deltas, probe>>
    /\ IF ~Registered(container) \/ containerContents[container].volume = Zero
       THEN /\ ret' = Returned("drink", container, Null)
            /\ UNCHANGED <<containerContents, drinking>>
       ELSE IF startAnimation /\ ~isDrinking
       THEN /\ isDrinking' = TRUE
            /\ drinkingElapsed' = 0
            /\ currentDrinkingGlass' = container
            /\ ret' = Returned("drink", container, Null)
            /\ UNCHANGED <<containerContents, lastDrinkInfo>>
       ELSE /\ ret' = Returned("drink", container, <<DrinkInfo(containerContents[container])>>)
            /\ containerContents' = [containerContents EXCEPT ![container] = Cleared(@)]
            /\ UNCHANGED drinking

\* getLastDrinkInfo that returns the slot without clearing it
getLastDrinkInfoKeeping ==
    /\ ret' = Returned("getLastDrinkInfo", NoNode, lastDrinkInfo)
    /\ UNCHANGED <<engine, ticks, deltas, probe>>

getLastDrinkInfo ==
    /\ ret' = Returned("getLastDrinkInfo", NoNode, lastDrinkInfo)
    /\ lastDrinkInfo' = Null
    /\ UNCHANGED <<containerContents, pouring, isDrinking, drinkingElapsed,
                   currentDrinkingGlass, shaking, ticks, deltas, probe>>

\* update that ends the animation only when the glass still holds liquid
updateUnlessEmpty ==
    /\ UNCHANGED ret
    /\ UNCHANGED <<pouring, shaking, ticks, deltas, probe>>
    /\ IF ~isDrinking \/ currentDrinkingGlass = NoNode
       THEN UNCHANGED <<containerContents, drinking>>
       ELSE IF drinkingElapsed < DrinkDurationMs
       THEN UNCHANGED <<containerContents, drinking>>
       ELSE IF /\ Registered(currentDrinkingGlass)
               /\ RLt(Zero, containerContents[currentDrinkingGlass].volume)
       THEN /\ isDrinking' = FALSE
            /\ currentDrinkingGlass' = NoNode
            /\ drinkingElapsed' = 0
            /\ lastDrinkInfo' = <<DrinkInfo(containerContents[currentDrinkingGlass])>>
            /\ containerContents' =
                 [containerContents EXCEPT ![currentDrinkingGlass] = Cleared(@)]
       ELSE UNCHANGED <<containerContents, drinking>>

\* update(deltaTime) only runs updateDrinkingAnimation
update ==
    /\ UNCHANGED ret
    /\ UNCHANGED <<pouring, shaking, ticks, deltas, probe>>
    /\ IF ~isDrinking \/ currentDrinkingGlass = NoNode
       THEN UNCHANGED <<containerContents, drinking>>
       ELSE IF drinkingElapsed < DrinkDurationMs
       THEN UNCHANGED <<containerContents, drinking>>
       ELSE /\ isDrinking' = FALSE
            /\ currentDrinkingGlass' = NoNode
            /\ drinkingElapsed' = 0
            /\ IF /\ Registered(currentDrinkingGlass)
                  /\ RLt(Zero, containerContents[currentDrinkingGlass].volume)
               THEN /\ lastDrinkInfo' = <<DrinkInfo(containerContents[currentDrinkingGlass])>>
                    /\ containerContents' =
                         [containerContents EXCEPT ![currentDrinkingGlass] = Cleared(@)]
               ELSE UNCHANGED <<containerContents, lastDrinkInfo>>

emptyContainer(container) ==
    /\ UNCHANGED ret
    /\ UNCHANGED <<pouring, drinking, shaking, ticks, deltas, probe>>
    /\ IF ~Registered(container)
       THEN UNCHANGED containerContents
       ELSE containerContents' = [containerContents EXCEPT ![container] = Cleared(@)]

\* wall-clock time passes between two calls while something waits for it
Advance(ms) ==
    /\ isDrinking \/ (pourProgressHideTimer = "pending" /\ hideTimerRemaining > 0)
    /\ drinkingElapsed' =
         IF isDrinking
         THEN (IF drinkingElapsed + ms > DrinkDurationMs
               THEN DrinkDurationMs ELSE drinkingElapsed + ms)
         ELSE drinkingElapsed
    /\ hideTimerRemaining' =
         IF hideTimerRemaining > ms THEN hideTimerRemaining - ms ELSE 0
    /\ UNCHANGED ret
    /\ UNCHANGED <<containerContents, isPouringActive, currentPouringBottle,
                   currentPouringAmount, pourProgressHideTimer, pourProgressUI,
                   originalBottleRotation, isDrinking, currentDrinkingGlass,
                   lastDrinkInfo, shaking, ticks, deltas, probe>>

(***************************************************************************)
(* identifyCocktail called on its own                                      *)
(***************************************************************************)
\* amounts of the probed contents: 20, 39, 40, 50, 60, 60.2 (= 3.01 * 20), 61
ProbeAmounts == {<<20, 1>>, <<39, 1>>, <<40, 1>>, <<50, 1>>, <<60, 1>>,
                 <<301, 5>>, <<61, 1>>}
\* types of the probed mixtures; "absinthe" is not in the catalog
ProbeTypes == {"gin", "vermouth_dry", "vodka", "rum", "liqueur", "lime_juice",
               "orange_juice", "absinthe"}
MixAmounts == {<<20, 1>>, <<60, 1>>}

ProbePairs == {p \in ProbeTypes \X ProbeTypes : p[1] # p[2]}
ProbeTriples ==
    {p \in ProbeTypes \X ProbeTypes \X ProbeTypes :
        p[1] # p[2] /\ p[1] # p[3] /\ p[2] # p[3]}

\* the ingredient lists the rules of the cascade ask for, in the order of the
\* rules; rum, lime juice and syrup (Daiquiri and Mojito) in every order and
\* with soda water added
RecipeTypes ==
    {<<"gin", "campari", "vermouth_sweet">>,
     <<"tequila", "triple_sec", "lime_juice">>,
     <<"rum", "lime_juice", "simple_syrup">>,
     <<"rum", "simple_syrup", "lime_juice">>,
     <<"lime_juice", "rum", "simple_syrup">>,
     <<"lime_juice", "simple_syrup", "rum">>,
     <<"simple_syrup", "rum", "lime_juice">>,
     <<"simple_syrup", "lime_juice", "rum">>,
     <<"rum", "lime_juice", "simple_syrup", "soda_water">>,
     <<"rum", "pineapple_juice", "coconut_cream">>,
     <<"vodka", "triple_sec", "cranberry_juice", "lime_juice">>,
     <<"whiskey", "vermouth_sweet">>,
     <<"whiskey", "lemon_juice", "simple_syrup">>,
     <<"vodka", "tomato_juice">>,
     <<"tequila", "orange_juice", "grenadine">>,
     <<"rum", "triple_sec", "lime_juice">>,
     <<"vodka", "rum", "gin", "tequila", "triple_sec">>}

\* each recipe with the same amount of every ingredient
RecipeProbes ==
    {[i \in 1..Len(r) |-> Entry(r[i], a)] : r \in RecipeTypes, a \in MixAmounts}

\* the probed contents: nothing, every single ingredient, every ordered pair
\* of two probe amounts of gin and dry vermouth, and the mixtures of two or
\* three distinct probe types
ProbeContents ==
    {<<>>}
    \cup {<<Entry(t, a)>> : t \in CatalogIds \cup {"absinthe"}, a \in MixAmounts}
    \cup {<<Entry("gin", g), Entry("vermouth_dry", v)>> :
            g \in ProbeAmounts, v \in ProbeAmounts}
    \cup {<<Entry("vermouth_dry", v), Entry("gin", g)>> :
            g \in ProbeAmounts, v \in ProbeAmounts}
    \cup {<<Entry(p[1], a1), Entry(p[2], a2)>> :
            p \in ProbePairs, a1 \in MixAmounts, a2 \in MixAmounts}
    \cup {<<Entry(p[1], <<20, 1>>), Entry(p[2], a2), Entry(p[3], <<20, 1>>)>> :
            p \in ProbeTriples, a2 \in MixAmounts}
    \cup RecipeProbes

InitIdentify ==
    /\ EngineInit
    /\ deltas = {}
    /\ idContents \in ProbeContents
    /\ idName = ""

identify ==
    /\ idName = ""
    /\ idName' = identifyCocktail(idContents)
    /\ UNCHANGED <<engine, ret, ticks, deltas, idContents>>

NextIdentify == identify

SpecIdentify == InitIdentify /\ [][NextIdentify]_vars

(***************************************************************************)
(* Specifications                                                          *)
(***************************************************************************)
Register == \E c \in Handles, m \in Capacities : initContainer(c, m)
\* a bottle tick without a camera, and one with the aim test
PourTick ==
    \E b \in Bottles, c \in Handles, l \in LiquorTypes, dt \in deltas :
        pour(b, c, l, dt, NoCamera)
AimedPourTick ==
    \E b \in Bottles, c \in Handles, l \in LiquorTypes, dt \in deltas,
       cam \in Cameras \ {NoCamera} : pour(b, c, l, dt, cam)
ShakerTick == \E s \in Handles, c \in Handles, dt \in deltas : pourFromShaker(s, c, dt)
Empty == \E c \in Handles : emptyContainer(c)
Shake == \E c \in Handles, dt \in ShakeDeltas : shake(c, dt)
StopShaking == \E c \in Handles : stopShaking(c)
Drink == \E c \in Handles, a \in BOOLEAN : drink(c, a)
Tick == \E ms \in TimeSteps : Advance(ms)

\* the whole engine
Next ==
    \/ Register
    \/ PourTick
    \/ AimedPourTick
    \/ ShakerTick
    \/ stopPouring
    \/ hideTimerCallback
    \/ Shake
    \/ StopShaking
    \/ Drink
    \/ getLastDrinkInfo
    \/ update
    \/ Empty
    \/ Tick

Spec == Init /\ [][Next]_vars

\* the container model and the transfer engine on their own
NextTransfer ==
    \/ Register
    \/ PourTick
    \/ ShakerTick
    \/ Empty

SpecTransfer == Init /\ [][NextTransfer]_vars

\* bottle pours under the aim test, in ticks of 2 s
InitAim ==
    /\ EngineInit
    /\ deltas = SipDeltas
    /\ idContents = <<>>
    /\ idName = ""

NextAim ==
    \/ Register
    \/ AimedPourTick
    \/ Empty

SpecAim == InitAim /\ [][NextAim]_vars

\* agitation: vessels are registered, filled by 2 s ticks and shaken
InitShake ==
    /\ EngineInit
    /\ deltas = SipDeltas
    /\ idContents = <<>>
    /\ idName = ""

NextShake ==
    \/ Register
    \/ PourTick
    \/ Shake
    \/ StopShaking

SpecShake == InitShake /\ [][NextShake]_vars

\* pour sessions: ticks of 2 s from the bottle or the shaker, stops, and the
\* hide timer
InitSession ==
    /\ EngineInit
    /\ deltas = SipDeltas
    /\ idContents = <<>>
    /\ idName = ""

NextSession ==
    \/ Register
    \/ PourTick
    \/ ShakerTick
    \/ stopPouring
    \/ hideTimerCallback
    \/ Tick

SpecSession == InitSession /\ [][NextSession]_vars

\* the pour session under the frame loop: time keeps passing while a timer
\* waits, a timer that is due runs its callback, and handlePouring keeps
\* calling stopPouring on the frames in which nothing is poured
SpecFrameLoop ==
    /\ SpecSession
    /\ WF_vars(Tick)
    /\ SF_vars(hideTimerCallback)
    /\ WF_vars(stopPouring)

\* the bar as BarEnvironment sets it up: a 300 ml glass and the 500 ml shaker
\* are registered, and are then only poured into, poured over and emptied
InitBar ==
    /\ isPouringActive = FALSE
    /\ currentPouringBottle = NoNode
    /\ currentPouringAmount = Zero
    /\ pourProgressHideTimer = "null"
    /\ hideTimerRemaining = 0
    /\ pourProgressUI = [display |-> "", pourRateText |-> Null]
    /\ isDrinking = FALSE
    /\ drinkingElapsed = 0
    /\ currentDrinkingGlass = NoNode
    /\ lastDrinkInfo = Null
    /\ isShakingActive = FALSE
    /\ shakeTime = Zero
    /\ rotationX = [h \in Handles |-> Zero]
    /\ originalBottleRotation = Null
    /\ ret = Returned("none", NoNode, Null)
    /\ ticks = 0
    /\ containerContents =
         MapSet(MapSet(<<>>, "glass", EmptyContents(300)), "shaker", EmptyContents(500))
    /\ deltas \in {LongDeltas, ShortDeltas}
    /\ idContents = <<>>
    /\ idName = ""

NextBar ==
    \/ PourTick
    \/ ShakerTick
    \/ Empty

SpecBar == InitBar /\ [][NextBar]_vars

\* the consumption state machine over containers filled by 2 s ticks
InitDrink ==
    /\ EngineInit
    /\ deltas = SipDeltas
    /\ idContents = <<>>
    /\ idName = ""

NextDrink ==
    \/ Register
    \/ PourTick
    \/ ShakerTick
    \/ Empty
    \/ Drink
    \/ getLastDrinkInfo
    \/ update
    \/ Tick

SpecDrink == InitDrink /\ [][NextDrink]_vars

\* one glass under the frame loop: the glass is served (registered
\* again), poured into, emptied and drunk from, while the clock keeps
\* running during an animation and update is called on every frame
ServeGlass == initContainer("glass", 300)
GlassTick ==
    \E b \in Bottles, l \in LiquorTypes, dt \in deltas : pour(b, "glass", l, dt, NoCamera)
EmptyGlass == emptyContainer("glass")
DrinkGlass == \E a \in BOOLEAN : drink("glass", a)

NextDrinkLoop ==
    \/ ServeGlass
    \/ GlassTick
    \/ EmptyGlass
    \/ DrinkGlass
    \/ update
    \/ Tick

SpecDrinkLoop ==
    /\ InitDrink
    /\ [][NextDrinkLoop]_vars
    /\ WF_vars(Tick)
    /\ WF_vars(update)

(***************************************************************************)
(* Properties                                                              *)
(***************************************************************************)
Contents(c) == containerContents[c]
IsEmptyVessel(c) == ~Registered(c) \/ Contents(c).volume = Zero

\* C1: every registered vessel satisfies 0 <= volume <= maxVolume after any
\* sequence of commands; a tick that would overfill is clipped.
C1_CapacityInvariant ==
    \A c \in DOMAIN containerContents :
        /\ RLe(Zero, Contents(c).volume)
        /\ RLe(Contents(c).volume, Contents(c).maxVolume)

\* C2: in every reachable state each vessel's volume is the exact sum of the
\* amounts of its ingredient entries, also after pourFromShaker has pruned
\* small entries.
C2_VolumeIsSum ==
    \A c \in DOMAIN containerContents :
        Contents(c).volume = SumAmounts(Contents(c).ingredients)

\* the volumes, and the summed ingredient amounts, of two vessels together
TotalVolume(cc, s, t) == RAdd(cc[s].volume, cc[t].volume)
TotalAmount(cc, s, t) ==
    RAdd(SumAmounts(cc[s].ingredients), SumAmounts(cc[t].ingredients))

\* C3: every pourFromShaker tick between two registered vessels leaves the
\* sum of the two volumes unchanged, and likewise the sum of the ingredient
\* amounts of the two vessels.
C3_Conservation ==
    [][\A s \in Handles : \A t \in Handles \ {s} : \A dt \in deltas :
          (Registered(s) /\ Registered(t) /\ pourFromShaker(s, t, dt)) =>
              /\ TotalVolume(containerContents', s, t)
                    = TotalVolume(containerContents, s, t)
              /\ TotalAmount(containerContents', s, t)
                    = TotalAmount(containerContents, s, t)]_vars

\* the smallest of three rationals
Min3(x, y, z) == IF RLe(x, y) /\ RLe(x, z) THEN x ELSE IF RLe(y, z) THEN y ELSE z

\* C4: a pourFromShaker tick from a non-empty source into a destination that
\* is not full moves exactly min(pourRate * deltaTime, source volume,
\* destination remaining capacity): the source's volume falls and the
\* destination's volume rises by that amount.
C4_TransferIsMin ==
    [][\A s \in Handles : \A t \in Handles \ {s} : \A dt \in deltas :
          (/\ Registered(s) /\ Registered(t)
           /\ RLt(Zero, Contents(s).volume)
           /\ RLt(Contents(t).volume, Contents(t).maxVolume)
           /\ pourFromShaker(s, t, dt)) =>
              LET moved == Min3(<<pourRate * dt[1], dt[2]>>,
                                Contents(s).volume,
                                RSub(Contents(t).maxVolume, Contents(t).volume))
              IN  /\ RSub(containerContents'[t].volume, Contents(t).volume) = Rat(moved[1], moved[2])
                  /\ RSub(Contents(s).volume, containerContents'[s].volume) = Rat(moved[1], moved[2])]_vars

\* C4 witness: the 500 ml shaker (gin 300, dry vermouth 200) has been poured
\* into the empty 300 ml glass by a tick of nominally 400 ml: the glass holds
\* 300 and the shaker is left with 200.
C4_Witness ==
    /\ Registered("shaker") /\ Registered("glass")
    /\ Contents("shaker").maxVolume = FromInt(500)
    /\ Contents("shaker").volume = FromInt(200)
    /\ Contents("shaker").ingredients =
         <<Entry("gin", FromInt(120)), Entry("vermouth_dry", FromInt(80))>>
    /\ Contents("glass").maxVolume = FromInt(300)
    /\ Contents("glass").volume = FromInt(300)
    /\ Contents("glass").ingredients =
         <<Entry("gin", FromInt(180)), Entry("vermouth_dry", FromInt(120))>>

\* update is about to commit the drink: the animation has run its duration
CommitDue ==
    /\ isDrinking
    /\ currentDrinkingGlass # NoNode
    /\ drinkingElapsed >= DrinkDurationMs

\* the snapshot of the glass and the cleared glass, after a commit
Committed(before, after, slot) ==
    /\ slot = <<[volume |-> before.volume,
                 ingredients |-> before.ingredients,
                 color |-> before.color,
                 name |-> identifyCocktail(before.ingredients)]>>
    /\ after.ingredients = <<>>
    /\ after.volume = Zero
    /\ after.color = NeutralColor

C6_ConsumedOnRead ==
    [][getLastDrinkInfo =>
          /\ ret'.value = lastDrinkInfo
          /\ lastDrinkInfo' = Null]_vars

\* C6 witness: a retrieval has returned a stored snapshot and the slot is
\* empty again.
C6_Witness ==
    /\ ret.op = "getLastDrinkInfo"
    /\ ret.value # Null
    /\ lastDrinkInfo = Null

\* C7: a drink request on an empty or unregistered vessel returns null and
\* changes nothing: the consumption machine, every vessel and the stored
\* snapshot stay as they are.
C7_EmptyDrinkIsNoop ==
    [][\A c \in Handles, a \in BOOLEAN :
          (IsEmptyVessel(c) /\ drink(c, a)) =>
              /\ ret'.value = Null
              /\ UNCHANGED engine]_vars

\* C7 witness: the last drink request was made on a registered, empty vessel
\* while no drink was in progress, and returned null.
C7_Witness ==
    /\ ret.op = "drink"
    /\ ret.value = Null
    /\ Registered(ret.container)
    /\ Contents(ret.container).volume = Zero
    /\ ~isDrinking

\* a content holding only gin and dry vermouth, both with positive amounts
OnlyGinAndVermouth(ings) ==
    /\ Len(ings) = 2
    /\ {ings[1].type, ings[2].type} = {"gin", "vermouth_dry"}
    /\ ings[1].amount[1] > 0 /\ ings[2].amount[1] > 0

\* C8: for a content of only gin and dry vermouth, identifyCocktail returns
\* the Martini name exactly when 2 <= gin / vermouth_dry <= 3 (ratio 3
\* included, anything above 3 or below 2 excluded).
C8_MartiniBand ==
    (idName # "" /\ OnlyGinAndVermouth(idContents)) =>
        LET g == getAmount(idContents, "gin")
            v == getAmount(idContents, "vermouth_dry")
        IN  (idName = "Martini") <=>
                (2 * v[1] * g[2] <= g[1] * v[2] /\ g[1] * v[2] <= 3 * v[1] * g[2])

\* C8 witness: gin 60 and dry vermouth 20 (ratio 3) identified as a Martini.
C8_Witness ==
    /\ idContents = <<Entry("gin", FromInt(60)), Entry("vermouth_dry", FromInt(20))>>
    /\ idName = "Martini"

\* the names of the recipe rules of the cascade, the two liqueur pairings of
\* its tail included
RecipeNames ==
    {"Martini", "Vodka Martini", "Negroni", "Margarita", "Daiquiri", "Pina Colada",
     "Cosmopolitan", "Mojito", "Manhattan", "Whiskey Sour", "Bloody Mary",
     "Screwdriver", "Tequila Sunrise", "Mai Tai", "Long Island Iced Tea",
     "Tropical Cocktail", "Sex on the Beach"}

\* C9: when no recipe rule matches, the name depends on the ingredient count
\* only: a single catalog ingredient gets a neat name of its own (never the
\* undefined name), two ingredients the two-ingredient mix name, more than
\* two the custom mix name, none the undefined name.
C9_FallbackByCount ==
    (idName # "" /\ idName \notin RecipeNames) =>
        /\ (Len(idContents) = 0) => idName = "Unknown drink"
        /\ (Len(idContents) = 1 /\ idContents[1].type \in CatalogIds) =>
              idName \notin {"Unknown drink", "Two-ingredient mix", "Custom mix"}
        /\ (Len(idContents) = 2) => idName = "Two-ingredient mix"
        /\ (Len(idContents) > 2) => idName = "Custom mix"

\* C10: initContainer on a vessel that is already registered keeps the
\* vessel's ingredients, volume, color and capacity as they are.
C10_ReRegisterKeeps ==
    [][\A c \in Handles, m \in Capacities :
          (Registered(c) /\ initContainer(c, m)) =>
              containerContents'[c] = containerContents[c]]_vars

\* C11: in every reachable state no vessel holds two entries of the same
\* ingredient type: a pour of a type already present, from a bottle or from
\* another vessel, increments the existing entry.
C11_NoDuplicateTypes ==
    \A c \in DOMAIN containerContents :
        \A i \in 1..Len(Contents(c).ingredients) :
            \A j \in 1..Len(Contents(c).ingredients) :
                Contents(c).ingredients[i].type = Contents(c).ingredients[j].type => i = j

\* C11 witness: the glass got gin from the bottle (200) and gin again from the
\* shaker (100 of its 200), 500 ml having been poured in the session, and
\* holds the single entry gin 300.
C11_Witness ==
    /\ Registered("shaker") /\ Registered("glass")
    /\ Contents("glass").ingredients = <<Entry("gin", FromInt(300))>>
    /\ Contents("shaker").ingredients = <<Entry("gin", FromInt(100))>>
    /\ currentPouringAmount = FromInt(500)

\* the aim and distance of a camera, as the claim words the gate and as pour
\* tests it
AimExceeds(camera) ==
    RLt(MinAimDot, camera.dot) /\ RLe(camera.distance, MaxPourDistance)
AimSuffices(camera) ==
    RLe(MinAimDot, camera.dot) /\ RLe(camera.distance, MaxPourDistance)

AtCapacity(c) == Registered(c) /\ RLe(Contents(c).maxVolume, Contents(c).volume)

\* C13: a pour tick from a bottle, or a pourFromShaker tick, into a vessel
\* whose volume is at its capacity changes no vessel's contents (neither the
\* destination's nor the source's) and nothing of the pour session.
C13_FullIsNoop ==
    [][/\ \A b \in Bottles, c \in Handles, l \in LiquorTypes, dt \in deltas :
            (AtCapacity(c) /\ pour(b, c, l, dt, NoCamera)) =>
                UNCHANGED <<containerContents, pouring>>
       /\ \A s \in Handles, t \in Handles, dt \in deltas :
            (AtCapacity(t) /\ Registered(s) /\ pourFromShaker(s, t, dt)) =>
                UNCHANGED <<containerContents, pouring>>]_vars

\* C13 witness: the glass is exactly full (300 of 300) while the shaker still
\* holds liquid and a session is open.
C13_Witness ==
    /\ AtCapacity("glass")
    /\ Contents("glass").volume = Contents("glass").maxVolume
    /\ Registered("shaker")
    /\ RLt(Zero, Contents("shaker").volume)
    /\ isPouringActive

\* C14: in every reachable state a vessel whose ingredient list is empty has
\* the neutral color 0xffffff, a shaker drained by pourFromShaker included.
C14_EmptyIsNeutral ==
    \A c \in DOMAIN containerContents :
        Contents(c).ingredients = <<>> => Contents(c).color = NeutralColor

\* C15: every command given an unregistered vessel handle (pour,
\* pourFromShaker as source or as target, shake, stopShaking, drink,
\* emptyContainer) leaves the whole engine state unchanged.
C15_UnregisteredIsNoop ==
    [][\A c \in Handles :
          ~Registered(c) =>
              /\ \A b \in Bottles, l \in LiquorTypes, dt \in deltas :
                    pour(b, c, l, dt, NoCamera) => UNCHANGED engine
              /\ \A t \in Handles, dt \in deltas :
                    (pourFromShaker(c, t, dt) \/ pourFromShaker(t, c, dt)) =>
                        UNCHANGED engine
              /\ \A dt \in ShakeDeltas : shake(c, dt) => UNCHANGED engine
              /\ stopShaking(c) => UNCHANGED engine
              /\ \A a \in BOOLEAN : drink(c, a) => UNCHANGED engine
              /\ emptyContainer(c) => UNCHANGED engine]_vars

\* the vessel holds nothing, or a single entry of the type whose amount is
\* the vessel's volume
HoldsOnly(c, l) ==
    \/ Contents(c).ingredients = <<>> /\ Contents(c).volume = Zero
    \/ /\ Len(Contents(c).ingredients) = 1
       /\ Contents(c).ingredients[1].type = l
       /\ Contents(c).ingredients[1].amount = Contents(c).volume

\* C16: a tick of a catalog ingredient from a bottle, without camera, into a
\* vessel below its capacity that is empty or holds only that ingredient
\* (amount a) leaves it with the single entry of amount a + pourRate *
\* deltaTime, the same volume and, once the amount is positive, the base
\* color of the ingredient; over any split into ticks an empty vessel thus
\* ends with amount and volume pourRate * T and the base color.
C16_SimplePour ==
    [][\A b \in Bottles, c \in Handles, l \in LiquorTypes \cap CatalogIds, dt \in deltas :
          (/\ Registered(c)
           /\ HoldsOnly(c, l)
           /\ RLt(Contents(c).volume, Contents(c).maxVolume)
           /\ pour(b, c, l, dt, NoCamera)) =>
              LET total == RAdd(Contents(c).volume, <<pourRate * dt[1], dt[2]>>)
              IN  /\ containerContents'[c].ingredients = <<Entry(l, total)>>
                  /\ containerContents'[c].volume = total
                  /\ RLt(Zero, total) =>
                        containerContents'[c].color = liquorDatabase[l]]_vars

\* C16 witness: the 500 ml shaker filled with gin in two ticks (200 and 300
\* ml) holds the single entry gin 500 and has gin's color.
C16_Witness ==
    /\ Registered("shaker")
    /\ Contents("shaker").ingredients = <<Entry("gin", FromInt(500))>>
    /\ Contents("shaker").volume = FromInt(500)
    /\ Contents("shaker").color = liquorDatabase["gin"]
    /\ Contents("glass").ingredients = <<>>
    /\ ticks = 2

\* the base colors of the ingredients of a list, one channel of them
BaseReds(ings) == {Red(liquorDatabase[ings[i].type]) : i \in 1..Len(ings)}
BaseGreens(ings) == {Green(liquorDatabase[ings[i].type]) : i \in 1..Len(ings)}
BaseBlues(ings) == {Blue(liquorDatabase[ings[i].type]) : i \in 1..Len(ings)}
Spanned(x, S) == (\E lo \in S : lo <= x) /\ (\E hi \in S : x <= hi)

\* C17: in every reachable state with a non-empty ingredient list, each
\* channel of the vessel's color lies between the least and the greatest
\* value of that channel over the base colors of the vessel's ingredients.
C17_ColorWithinBounds ==
    \A c \in DOMAIN containerContents :
        Contents(c).ingredients # <<>> =>
            /\ Spanned(Red(Contents(c).color), BaseReds(Contents(c).ingredients))
            /\ Spanned(Green(Contents(c).color), BaseGreens(Contents(c).ingredients))
            /\ Spanned(Blue(Contents(c).color), BaseBlues(Contents(c).ingredients))

\* C18: a drink request (with the animation, as by default) on a non-empty
\* vessel while no drink is in progress starts the animation: it records the
\* glass and the start time, returns no snapshot, stores none, and changes no
\* vessel's contents.
C18_DrinkStartsAnimation ==
    [][\A c \in Handles :
          (~IsEmptyVessel(c) /\ ~isDrinking /\ drink(c, TRUE)) =>
              /\ isDrinking'
              /\ currentDrinkingGlass' = c
              /\ drinkingElapsed' = 0
              /\ ret'.value = Null
              /\ UNCHANGED <<containerContents, lastDrinkInfo>>]_vars

\* C18 witness: the animation has just started on the glass, which still
\* holds its 120 ml of gin; the request returned null.
C18_Witness ==
    /\ isDrinking
    /\ currentDrinkingGlass = "glass"
    /\ drinkingElapsed = 0
    /\ ret = Returned("drink", "glass", Null)
    /\ Registered("glass")
    /\ Contents("glass").ingredients = <<Entry("gin", FromInt(120))>>

\* C19: a pour tick (from a bottle or from another vessel) that makes its
\* destination reach the capacity leaves the pour session inactive, without
\* a call of stopPouring.
C19_IdleOnFull ==
    [][/\ \A b \in Bottles, c \in Handles, l \in LiquorTypes, dt \in deltas :
            (/\ Registered(c) /\ ~AtCapacity(c)
             /\ pour(b, c, l, dt, NoCamera)
             /\ RLe(containerContents'[c].maxVolume, containerContents'[c].volume)) =>
                ~isPouringActive'
       /\ \A s \in Handles, t \in Handles, dt \in deltas :
            (/\ Registered(s) /\ Registered(t) /\ ~AtCapacity(t)
             /\ RLt(Contents(t).volume, containerContents'[t].volume)
             /\ RLe(containerContents'[t].maxVolume, containerContents'[t].volume)
             /\ pourFromShaker(s, t, dt)) =>
                ~isPouringActive']_vars

\* the hide timer's callback is running: armed, and its delay has passed
TimerFires == pourProgressHideTimer = "pending" /\ hideTimerRemaining = 0

\* C20: stopPouring makes the session inactive and forgets its source at
\* once, arms the hide timer with 5000 ms and leaves the panel and the
\* session amount as they are; the panel is hidden, and the amount of an
\* inactive session changed (to 0), only by the timer's callback; and the
\* start of a new session cancels the timer.
C20_StopWithGrace ==
    [][/\ stopPouring =>
            /\ ~isPouringActive'
            /\ currentPouringBottle' = NoNode
            /\ pourProgressHideTimer' = "pending"
            /\ hideTimerRemaining' = HideDelayMs
            /\ UNCHANGED <<pourProgressUI, currentPouringAmount>>
       /\ (pourProgressUI.display # "none" /\ pourProgressUI'.display = "none") =>
            TimerFires /\ currentPouringAmount' = Zero
       /\ (~isPouringActive /\ ~isPouringActive'
             /\ currentPouringAmount' # currentPouringAmount) =>
            TimerFires /\ currentPouringAmount' = Zero
       /\ (~isPouringActive /\ isPouringActive') =>
            pourProgressHideTimer' = "null"]_vars

\* C20 witness: half of the grace period after a stop: the session is
\* inactive and has no source, the timer is pending, and the panel still
\* shows the 120 ml of the session.
C20_Witness ==
    /\ ~isPouringActive
    /\ currentPouringBottle = NoNode
    /\ pourProgressHideTimer = "pending"
    /\ hideTimerRemaining = 2500
    /\ pourProgressUI.display = "block"
    /\ currentPouringAmount = FromInt(120)

\* the share of a source entry that a transfer of moved out of volume takes
Share(entry, moved, volume) == RMul(entry.amount, RDiv(moved, volume))

NamedRules ==
    {"Martini", "Vodka Martini", "Negroni", "Margarita", "Daiquiri", "Pina Colada",
     "Cosmopolitan", "Mojito", "Manhattan", "Whiskey Sour", "Bloody Mary",
     "Screwdriver", "Tequila Sunrise", "Mai Tai", "Long Island Iced Tea"}

\* the entries whose identifier is in the catalog
CatalogOnly(ings) ==
    LET InCatalog(e) == e.type \in CatalogIds IN SelectSeq(ings, InCatalog)

\* C23: entries whose identifier is not in the catalog never change whether a
\* named recipe rule matches: whenever the identified contents, or the same
\* contents without their non-catalog entries, are given the name of a named
\* rule, both are given the same name.
C23_UnknownNeverMatters ==
    idName # "" =>
      LET known == identifyCocktail(CatalogOnly(idContents))
      IN  (idName \in NamedRules \/ known \in NamedRules) => idName = known

\* C24: a pour tick with a time delta of zero does not start a pour session
\* and does not change the destination: the pour state stays as it was and no
\* ingredient entry is added, so that after every step every ingredient
\* entry of every vessel has an amount greater than 0.
C24_ZeroTickIsNoop ==
    [][/\ \A b \in Bottles : \A c \in Handles : \A l \in LiquorTypes :
            pour(b, c, l, Zero, NoCamera) =>
              UNCHANGED <<containerContents, isPouringActive, currentPouringBottle>>
       /\ \A c \in DOMAIN containerContents' :
            \A i \in 1..Len(containerContents'[c].ingredients) :
               RLt(Zero, containerContents'[c].ingredients[i].amount)]_vars

\* C25: while a drink animation is in progress, a further drink request (with
\* the animation asked for, as by default) on any non-empty vessel changes no
\* vessel's contents and returns no snapshot; the contents are consumed only
\* at the commit made by update.
C25_DrinkWhileDrinkingIsNoop ==
    [][\A c \in Handles :
          (isDrinking /\ ~IsEmptyVessel(c) /\ drink(c, TRUE)) =>
             /\ UNCHANGED containerContents
             /\ ret'.value = Null]_vars

\* C26: once a pour has stopped (the panel is shown, no pour is active and
\* the hide timer is armed) and no new pour starts, the pour indicator is
\* eventually cleared: the panel is hidden and the session amount is zero,
\* even though the frame loop keeps calling stopPouring while idle.
C26_EventuallyCleared ==
    (~isPouringActive /\ pourProgressHideTimer = "pending"
        /\ pourProgressUI.display = "block")
      ~> (isPouringActive
          \/ (pourProgressUI.display = "none" /\ currentPouringAmount = Zero))

\* C27: after every pour or pourFromShaker tick that transfers, the
\* cumulative amount shown by the progress readout is the (rounded) amount
\* accumulated by the current session, the current tick included.
C27_ReadoutIsSessionAmount ==
    [][((PourTick \/ ShakerTick) /\ ticks' # ticks) =>
          pourProgressUI'.pourRateText = <<RRound(currentPouringAmount')>>]_vars

\* C28: every named rule of the recipe cascade is reachable: once the
\* cascade has run, each of the fifteen names is the name identifyCocktail
\* gives to some of the probed contents.
C28_EveryRuleReachable ==
    idName # "" =>
      \A n \in NamedRules : \E c \in ProbeContents : identifyCocktail(c) = n

\* the same for the rules other than Mojito
C28_OthersReachable ==
    idName # "" =>
      \A n \in NamedRules \ {"Mojito"} : \E c \in ProbeContents : identifyCocktail(c) = n

\* C29: agitation time is per vessel and per gesture: when a vessel that
\* holds liquid and whose node is at rest (not shaken since it was last put
\* to rest) is shaken, the time counted toward its 2-second threshold starts
\* from zero, so that after the tick it is the tick's own delta, whatever
\* other vessel was shaken before; in particular after stopShaking the next
\* gesture starts from zero.
C29_AgitationPerVessel ==
    [][\A c \in Handles : \A dt \in ShakeDeltas :
          (~IsEmptyVessel(c) /\ rotationX[c] = Zero /\ shake(c, dt)) =>
             shakeTime' = dt]_vars

\* C30: every drink animation that starts eventually ends with the machine
\* back in Idle (no drink in progress, no current glass), whatever happens
\* to the glass meanwhile (further pours, emptyContainer, re-registration,
\* further drink requests); and the update that ends it stores the snapshot
\* of the glass and empties it if the glass then holds liquid, and otherwise
\* stores nothing and leaves the contents and the snapshot slot as they are.
C30_AnimationEnds ==
    /\ isDrinking ~> (~isDrinking /\ currentDrinkingGlass = NoNode)
    /\ [][(CommitDue /\ update) =>
            /\ ~isDrinking' /\ currentDrinkingGlass' = NoNode
            /\ IF ~IsEmptyVessel(currentDrinkingGlass)
               THEN Committed(Contents(currentDrinkingGlass),
                              containerContents'[currentDrinkingGlass], lastDrinkInfo')
               ELSE UNCHANGED <<containerContents, lastDrinkInfo>>]_vars

\* C30 witness: an animation on a glass of 120 ml of gin has ended: the
\* machine is idle, the snapshot of the glass is stored and the glass is empty.
C30_Witness ==
    /\ ~isDrinking
    /\ currentDrinkingGlass = NoNode
    /\ lastDrinkInfo # Null
    /\ lastDrinkInfo[1].name = "Gin neat"
    /\ lastDrinkInfo[1].volume = FromInt(120)
    /\ IsEmptyVessel("glass")

=============================================================================
